---- MODULE Spec2Model ----
(***************************************************************************)
(* Verification model of the e-commerce analytics core:                    *)
(*   - RFMAnalysis        (src/src/rfm.analysis.py)                        *)
(*   - CohortAnalysis     (src/src/cohort_analysis.py)                     *)
(*   - the synthetic data generator (src/src/generate_sample_data.py)      *)
(* Dates are day numbers (RFM, generator) or <<year, month, day>> triples  *)
(* (cohorts); money is kept in integer cents, and products of a price and  *)
(* a discount in 1/10000 of a currency unit.                               *)
(***************************************************************************)
EXTENDS Integers, Sequences, FiniteSets, TLC

VARIABLES
    seg_row, seg_label,                       \* one call of _assign_segment
    orders, customers, rfm_data,              \* an RFMAnalysis object
    rfm_out,                                  \* the outcome of the last call on it
    rfm_computed,                             \* history: some calculate_rfm has returned
    co_orders, cohort_data,                   \* a CohortAnalysis object
    co_out,                                   \* the outcome of the last call on it
    co_created,                               \* history: the caller has run create_cohorts
    gen_pc,                                   \* position of the generator script
    g_customers, g_products,                  \* the lists customers, products
    g_orders, g_order_items,                  \* the lists orders, order_items
    order_id, order_item_id, cust_id,         \* the script's counters
    g_loop                                    \* locals of the per-customer order loop

segVars == <<seg_row, seg_label>>
rfmVars == <<orders, customers, rfm_data, rfm_out, rfm_computed>>
cohortVars == <<co_orders, cohort_data, co_out, co_created>>
genVars == <<gen_pc, g_customers, g_products, g_orders, g_order_items,
             order_id, order_item_id, cust_id, g_loop>>
vars == <<seg_row, seg_label, orders, customers, rfm_data, rfm_out, rfm_computed,
          co_orders, cohort_data, co_out, co_created,
          gen_pc, g_customers, g_products, g_orders, g_order_items,
          order_id, order_item_id, cust_id, g_loop>>

\* Python's None / a pandas null, and a present value
None == <<>>
Some(v) == <<v>>

(***************************************************************************)
(* Bounds of the model.                                                    *)
(***************************************************************************)
MaxOrders == 3        \* rows of a general order table
NumDays == 2          \* order dates of a general order table are days 0..NumDays-1
MinWide == 3          \* customers of a wide order table (one customer per day)
MaxWide == 6
MaxCustRows == 2      \* rows of the customer table
MaxCohortOrders == 3  \* rows of the order table of a CohortAnalysis
NumCustomers == 2     \* customers the generator creates
NumProducts == 2      \* products the generator creates
WindowDays == 1       \* days from START_DATE to END_DATE
FirstGapMax == 1      \* largest offset of a first order from the registration
GapMin == 1           \* smallest and largest gap between two orders
GapMax == 2
ShipMax == 1          \* largest shipping delay
MaxItems == 2         \* largest number of items of an order
MaxQty == 2           \* largest quantity of an item
MaxNumOrders == 2     \* largest order count a behaviour type draws
MaxGenOrders == 2     \* the generator is followed up to this many orders

Amounts == {1000, 2500}                \* order totals, in cents
Days == 0 .. (NumDays - 1)
RefDates == {0, NumDays}               \* caller-supplied reference dates
CustTableIds == {1}                    \* customer ids the customer table may hold

(***************************************************************************)
(* Small helpers.                                                          *)
(***************************************************************************)
RECURSIVE SumSeq(_)
SumSeq(s) == IF s = <<>> THEN 0 ELSE Head(s) + SumSeq(Tail(s))

SeqMax(s) == CHOOSE v \in {s[i] : i \in DOMAIN s} : \A i \in DOMAIN s : s[i] <= v

Column(t, name) == [i \in DOMAIN t |-> t[i][name]]

RECURSIVE SetToSortedSeq(_)
SetToSortedSeq(S) ==
    IF S = {} THEN <<>>
    ELSE LET m == CHOOSE v \in S : \A w \in S : v <= w
         IN <<m>> \o SetToSortedSeq(S \ {m})

RECURSIVE Concat(_)
Concat(ss) == IF ss = <<>> THEN <<>> ELSE Head(ss) \o Concat(Tail(ss))

\* numpy/pandas round(): num/den rounded to the nearest integer, ties to even
RoundHalfEven(num, den) ==
    LET q == num \div den
        r == num % den
    IN IF 2 * r < den THEN q
       ELSE IF 2 * r > den THEN q + 1
       ELSE IF q % 2 = 0 THEN q ELSE q + 1

(***************************************************************************)
(* RFMAnalysis._assign_segment (and the dashboard's copy assign_segment).  *)
(***************************************************************************)
assign_segment_loyal_first(r, f, m) ==
    IF r >= 3 /\ f >= 3 /\ m >= 3 THEN "Loyal"
    ELSE IF r >= 4 /\ f >= 4 /\ m >= 4 THEN "Champions"
    ELSE IF r >= 3 /\ f <= 2 THEN "Potential Loyalist"
    ELSE IF r <= 2 /\ f >= 3 THEN "At Risk"
    ELSE IF r <= 2 /\ f <= 2 /\ m >= 3 THEN "Cant Lose"
    ELSE IF r <= 2 /\ f <= 2 THEN "Lost"
    ELSE "Others"

assign_segment(r, f, m) ==
    IF r >= 4 /\ f >= 4 /\ m >= 4 THEN "Champions"
    ELSE IF r >= 3 /\ f >= 3 /\ m >= 3 THEN "Loyal"
    ELSE IF r >= 3 /\ f <= 2 THEN "Potential Loyalist"
    ELSE IF r <= 2 /\ f >= 3 THEN "At Risk"
    ELSE IF r <= 2 /\ f <= 2 /\ m >= 3 THEN "Cant Lose"
    ELSE IF r <= 2 /\ f <= 2 THEN "Lost"
    ELSE "Others"

Scores == 1 .. 5

AssignSegment ==
    /\ seg_label = None
    /\ seg_label' = Some(assign_segment(seg_row.r_score, seg_row.f_score, seg_row.m_score))
    /\ UNCHANGED seg_row
    /\ UNCHANGED <<rfmVars, cohortVars, genVars>>

(***************************************************************************)
(* Input tables of the RFM engine.                                         *)
(***************************************************************************)
OrderRow(id, c, d, a) ==
    [order_id |-> id, customer_id |-> c, order_date |-> d, total_amount |-> a]

CustomerRow(c) == [customer_id |-> c, customer_name |-> c, country |-> "USA"]

\* customer ids of a table as the generator writes it: grouped, ascending from 1
CustSeqs(L) ==
    {s \in [1 .. L -> 1 .. L] :
        s[1] = 1 /\ \A i \in 2 .. L : s[i] \in {s[i - 1], s[i - 1] + 1}}

GeneralTables ==
    UNION {{[i \in 1 .. L |-> OrderRow(i, cs[i], ds[i], am[i])] :
               cs \in CustSeqs(L), ds \in [1 .. L -> Days], am \in [1 .. L -> Amounts]} :
           L \in 1 .. MaxOrders}

\* wide tables: customer c orders on day c-1 only, or, in a table with a tie,
\* customers 2 and 3 both on day 1 and customer c >= 3 on day c-2; the amount
\* of the order cycles through Amounts, and a customer may repeat with one
\* more order of the lowest amount
LowAmount == CHOOSE a \in Amounts : \A b \in Amounts : a <= b
AmountOf(c) == SetToSortedSeq(Amounts)[((c - 1) % Cardinality(Amounts)) + 1]
Profile(c, repeat) == IF repeat THEN <<AmountOf(c), LowAmount>> ELSE <<AmountOf(c)>>
DayOf(c, tie) == IF tie /\ c >= 3 THEN c - 2 ELSE c - 1

RECURSIVE WideRows(_, _, _, _)
WideRows(p, tie, c, acc) ==
    IF c > Len(p) THEN acc
    ELSE LET am == Profile(c, p[c])
         IN WideRows(p, tie, c + 1,
                acc \o [j \in 1 .. Len(am) |->
                           OrderRow(Len(acc) + j, c, DayOf(c, tie), am[j])])

WideTables ==
    UNION {{WideRows(p, tie, 1, <<>>) : p \in [1 .. n -> BOOLEAN], tie \in BOOLEAN} :
           n \in MinWide .. MaxWide}

OrderTables == GeneralTables \cup WideTables

CustomerTables ==
    UNION {[1 .. L -> {CustomerRow(c) : c \in CustTableIds}] : L \in 0 .. MaxCustRows}

(***************************************************************************)
(* pandas operations used by calculate_rfm.                                *)
(***************************************************************************)
\* Series.rank(method='first'): distinct ranks 1..n, ties in order of appearance
RankFirst(x) ==
    [i \in DOMAIN x |->
        1 + Cardinality({j \in DOMAIN x : x[j] < x[i] \/ (x[j] = x[i] /\ j < i)})]

SortedValues(x) == SortSeq(x, LAMBDA a, b : a < b)

\* 5 * (the k/5 quantile of x), linear interpolation between order statistics
Quantile5(x, k) ==
    LET s == SortedValues(x)
        pos == (Len(x) - 1) * k
        i == (pos \div 5) + 1
        rem == pos % 5
    IN IF rem = 0 THEN 5 * s[i] ELSE 5 * s[i] + (s[i + 1] - s[i]) * rem

QuantileBins(x) == [k \in 1 .. 6 |-> Quantile5(x, k - 1)]

RECURSIVE Unique(_)
Unique(s) ==
    IF s = <<>> THEN <<>>
    ELSE LET t == Unique(SubSeq(s, 1, Len(s) - 1))
             v == s[Len(s)]
         IN IF \E i \in DOMAIN t : t[i] = v THEN t ELSE Append(t, v)

\* duplicates='drop'
DropDuplicates(bins) ==
    IF Len(Unique(bins)) < Len(bins) /\ Len(bins) # 2 THEN Unique(bins) ELSE bins

\* searchsorted(side='left') with include_lowest; v is 5 * the value
BinId(bins, v) ==
    IF v = bins[1] THEN 1 ELSE Cardinality({b \in DOMAIN bins : bins[b] < v})

\* pd.qcut(x, q=5, labels=labels, duplicates='drop')
qcut(x, labels) ==
    LET bins == DropDuplicates(QuantileBins(x))
        id(i) == BinId(bins, 5 * x[i])
    IN IF Len(labels) # Len(bins) - 1
       THEN [raised |-> "ValueError", value |-> <<>>]
       ELSE [raised |-> "",
             value |-> [i \in DOMAIN x |->
                          IF id(i) = 0 \/ id(i) = Len(bins) THEN None
                          ELSE Some(labels[id(i)])]]

\* Series.astype(int) of a categorical: a null cannot be converted
astype_int(col) ==
    IF \E i \in DOMAIN col : col[i] = None
    THEN [raised |-> "ValueError", value |-> <<>>]
    ELSE [raised |-> "", value |-> [i \in DOMAIN col |-> col[i][1]]]

\* rfm.merge(customers[[customer_id, customer_name, country]], how='left')
MergeLeft(rfm, custs) ==
    Concat([k \in DOMAIN rfm |->
        LET ms == SelectSeq(custs, LAMBDA c : c.customer_id = rfm[k].customer_id)
        IN IF ms = <<>>
           THEN <<rfm[k] @@ [customer_name |-> None, country |-> None]>>
           ELSE [j \in DOMAIN ms |->
                    rfm[k] @@ [customer_name |-> Some(ms[j].customer_name),
                               country |-> Some(ms[j].country)]]])

(***************************************************************************)
(* RFMAnalysis.                                                            *)
(***************************************************************************)
\* orders.groupby('customer_id').agg(...): one row per customer id, ascending
RfmMetrics(ords, ref) ==
    LET keys == SetToSortedSeq({ords[i].customer_id : i \in DOMAIN ords})
    IN [k \in DOMAIN keys |->
          LET os == SelectSeq(ords, LAMBDA o : o.customer_id = keys[k])
          IN [customer_id |-> keys[k],
              recency |-> ref - SeqMax(Column(os, "order_date")),
              frequency |-> Len(os),
              monetary |-> SumSeq(Column(os, "total_amount"))]]

\* rfm['frequency'].rank(method='first') and rfm['monetary'].rank(method='first')
FrequencyRank(rfm) == RankFirst(Column(rfm, "frequency"))

\* the monetary column binned as it is, ties and all
MonetaryUnranked(rfm) == Column(rfm, "monetary")

MonetaryRank(rfm) == RankFirst(Column(rfm, "monetary"))

Raise(e) == [raised |-> e, value |-> None]
Return(v) == [raised |-> "", value |-> Some(v)]

\* recency labelled like frequency and monetary
AscendingLabels == <<1, 2, 3, 4, 5>>

\* labels=[5, 4, 3, 2, 1]: the lowest recency bin scores 5
RecencyLabels == <<5, 4, 3, 2, 1>>

\* reference_date is None or Some(day)
calculate_rfm(ords, custs, reference_date) ==
    LET ref == IF reference_date = None THEN SeqMax(Column(ords, "order_date"))
               ELSE reference_date[1]
        rfm == RfmMetrics(ords, ref)
        rq == qcut(Column(rfm, "recency"), RecencyLabels)
        fq == qcut(FrequencyRank(rfm), <<1, 2, 3, 4, 5>>)
        mq == qcut(MonetaryRank(rfm), <<1, 2, 3, 4, 5>>)
        ri == astype_int(rq.value)
        fi == astype_int(fq.value)
        mi == astype_int(mq.value)
    IN IF rq.raised # "" THEN Raise(rq.raised)
       ELSE IF fq.raised # "" THEN Raise(fq.raised)
       ELSE IF mq.raised # "" THEN Raise(mq.raised)
       ELSE IF ri.raised # "" THEN Raise(ri.raised)
       ELSE IF fi.raised # "" THEN Raise(fi.raised)
       ELSE IF mi.raised # "" THEN Raise(mi.raised)
       ELSE LET scored ==
                  [k \in DOMAIN rfm |->
                      rfm[k] @@ [r_score |-> ri.value[k],
                                 f_score |-> fi.value[k],
                                 m_score |-> mi.value[k],
                                 rfm_segment |->
                                     assign_segment(ri.value[k], fi.value[k], mi.value[k])]]
            IN Return(MergeLeft(scored, custs))

\* a summary handed out without scores: an empty table instead of an error
get_segment_summary_silent(data) ==
    IF data = None THEN Return({})
    ELSE Return({[rfm_segment |-> data[1][i].rfm_segment] : i \in DOMAIN data[1]})

\* averages in 1/100 (avg_monetary and total_revenue in cents),
\* revenue_percentage in 1/100 of a percent
get_segment_summary(data) ==
    IF data = None THEN Raise("ValueError")
    ELSE LET rfm == data[1]
             total == SumSeq(Column(rfm, "monetary"))
             segs == {rfm[i].rfm_segment : i \in DOMAIN rfm}
             row(sg) ==
                 LET rs == SelectSeq(rfm, LAMBDA x : x.rfm_segment = sg)
                     rev == SumSeq(Column(rs, "monetary"))
                 IN [rfm_segment |-> sg,
                     customer_count |-> Len(rs),
                     avg_recency |-> RoundHalfEven(100 * SumSeq(Column(rs, "recency")), Len(rs)),
                     avg_frequency |->
                         RoundHalfEven(100 * SumSeq(Column(rs, "frequency")), Len(rs)),
                     avg_monetary |-> RoundHalfEven(rev, Len(rs)),
                     total_revenue |-> rev,
                     revenue_percentage |-> RoundHalfEven(10000 * rev, total)]
         IN Return({row(sg) : sg \in segs})

\* the value is the table written to output_path
export_results(data) ==
    IF data = None THEN Raise("ValueError") ELSE Return(data[1])

Outcome(op, arg, res) == [op |-> op, arg |-> arg, raised |-> res.raised, value |-> res.value]

CalculateRfm(reference_date) ==
    LET res == calculate_rfm(orders, customers, reference_date)
    IN /\ rfm_out' = Outcome("calculate_rfm", reference_date, res)
       /\ rfm_data' = IF res.raised = "" THEN res.value ELSE rfm_data
       /\ rfm_computed' = (rfm_computed \/ res.raised = "")
       /\ UNCHANGED <<orders, customers>>
       /\ UNCHANGED <<segVars, cohortVars, genVars>>

CalculateRfmDefault == CalculateRfm(None)

CalculateRfmAt == \E d \in RefDates : CalculateRfm(Some(d))

GetSegmentSummary ==
    /\ rfm_out' = Outcome("get_segment_summary", None, get_segment_summary(rfm_data))
    /\ UNCHANGED <<orders, customers, rfm_data, rfm_computed>>
    /\ UNCHANGED <<segVars, cohortVars, genVars>>

ExportResults ==
    /\ rfm_out' = Outcome("export_results", None, export_results(rfm_data))
    /\ UNCHANGED <<orders, customers, rfm_data, rfm_computed>>
    /\ UNCHANGED <<segVars, cohortVars, genVars>>

(***************************************************************************)
(* CohortAnalysis: input tables.  An order date is <<year, month, day>>.   *)
(***************************************************************************)
CohortDates ==
    {<<2023, 11, 5>>, <<2023, 11, 20>>, <<2023, 12, 5>>,
     <<2024, 2, 5>>, <<2024, 5, 5>>, <<2024, 11, 5>>}

CohortTables ==
    UNION {{[i \in 1 .. L |-> OrderRow(i, cs[i], ds[i], AmountOf(i))] :
               cs \in CustSeqs(L), ds \in [1 .. L -> CohortDates]} :
           L \in 1 .. MaxCohortOrders}

(***************************************************************************)
(* pandas operations used by CohortAnalysis.                               *)
(***************************************************************************)
DateBefore(a, b) ==
    \/ a[1] < b[1]
    \/ a[1] = b[1] /\ a[2] < b[2]
    \/ a[1] = b[1] /\ a[2] = b[2] /\ a[3] < b[3]

MinDate(D) == CHOOSE d \in D : \A e \in D : ~DateBefore(e, d)
MaxDate(D) == CHOOSE d \in D : \A e \in D : ~DateBefore(d, e)

\* a month period that forgets the year
to_period_month_of_year(d) == d[2] - 1

\* Series.dt.to_period('M'): the month period, counted in months from 1970-01
to_period_M(d) == (d[1] - 1970) * 12 + (d[2] - 1)

RECURSIVE GCD(_, _)
GCD(a, b) == IF b = 0 THEN a ELSE GCD(b, a % b)

\* an exact quotient n/d of naturals, d > 0, in lowest terms
Rat(n, d) == LET g == GCD(n, d) IN [num |-> n \div g, den |-> d \div g]
RatAdd(p, q) == Rat(p.num * q.den + q.num * p.den, p.den * q.den)

RECURSIVE RatSum(_)
RatSum(s) == IF s = <<>> THEN Rat(0, 1) ELSE RatAdd(Head(s), RatSum(Tail(s)))

\* Series.mean(): nulls are skipped; the mean of no value is null
MeanSkipNull(col) ==
    LET vs == SelectSeq(col, LAMBDA v : v # None)
        t == RatSum([i \in DOMAIN vs |-> vs[i][1]])
    IN IF vs = <<>> THEN None ELSE Some(Rat(t.num, t.den * Len(vs)))

\* 'count': the rows of the group, a customer once per order
CountRows(rows) == Len(rows)

\* pd.Series.nunique
NUnique(rows) == Cardinality({rows[i].customer_id : i \in DOMAIN rows})

(***************************************************************************)
(* CohortAnalysis.                                                         *)
(***************************************************************************)
CustomerDates(ords, c) ==
    {ords[i].order_date : i \in {j \in DOMAIN ords : ords[j].customer_id = c}}

\* the customer's latest order date
LastPurchase(ords, c) == MaxDate(CustomerDates(ords, c))

\* orders.groupby('customer_id')['order_date'].min()
FirstPurchase(ords, c) == MinDate(CustomerDates(ords, c))

\* a first-purchase table with one row per order instead of one per customer
FirstPurchasePerOrder(ords) ==
    [i \in DOMAIN ords |->
        [customer_id |-> ords[i].customer_id,
         cohort_month |-> to_period_M(FirstPurchase(ords, ords[i].customer_id))]]

\* first_purchase[['customer_id', 'cohort_month']]: one row per customer id,
\* ascending, as groupby(...).min().reset_index() leaves it
FirstPurchaseTable(ords) ==
    LET keys == SetToSortedSeq({ords[i].customer_id : i \in DOMAIN ords})
    IN [k \in DOMAIN keys |->
          [customer_id |-> keys[k],
           cohort_month |-> to_period_M(FirstPurchase(ords, keys[k]))]]

\* orders.merge(first_purchase[...], on='customer_id'): an inner join, one
\* output row per pair of matching rows, in the order of the left table
MergeInner(ords, first_purchase) ==
    Concat([i \in DOMAIN ords |->
        LET ms == SelectSeq(first_purchase,
                            LAMBDA f : f.customer_id = ords[i].customer_id)
        IN [j \in DOMAIN ms |-> ords[i] @@ [cohort_month |-> ms[j].cohort_month]]])

create_cohorts(ords) ==
    LET merged == MergeInner(ords, FirstPurchaseTable(ords))
    IN [i \in DOMAIN merged |->
          LET om == to_period_M(merged[i].order_date)
          IN merged[i] @@ [order_month |-> om,
                           cohort_index |-> om - merged[i].cohort_month]]

\* "if self.cohort_data is None: self.create_cohorts()"
EnsureCohorts(data, ords) == IF data = None THEN Some(create_cohorts(ords)) ELSE data

GroupRows(data, cm, ci) ==
    SelectSeq(data, LAMBDA x : x.cohort_month = cm /\ x.cohort_index = ci)

\* groupby(['cohort_month', 'cohort_index']) nunique, pivoted: rows and
\* columns ascending, a cell without orders is null
CohortTable(data) ==
    LET index == SetToSortedSeq({data[i].cohort_month : i \in DOMAIN data})
        columns == SetToSortedSeq({data[i].cohort_index : i \in DOMAIN data})
    IN [index |-> index,
        columns |-> columns,
        cell |-> [k \in {<<index[a], columns[b]>> : a \in DOMAIN index, b \in DOMAIN columns} |->
                    IF GroupRows(data, k[1], k[2]) = <<>> THEN None
                    ELSE Some(NUnique(GroupRows(data, k[1], k[2])))]]

\* cohort_table.iloc[:, -1]
LastColumn(table) ==
    [cm \in {table.index[a] : a \in DOMAIN table.index} |->
        table.cell[<<cm, table.columns[Len(table.columns)]>>]]

\* cohort_table.iloc[:, 0]
CohortSize(table) ==
    [cm \in {table.index[a] : a \in DOMAIN table.index} |->
        table.cell[<<cm, table.columns[1]>>]]

\* cohort_table.divide(cohort_size, axis=0) * 100
RetentionTable(table) ==
    LET size == CohortSize(table)
    IN [index |-> table.index,
        columns |-> table.columns,
        cell |-> [k \in DOMAIN table.cell |->
                    IF table.cell[k] = None \/ size[k[1]] = None THEN None
                    ELSE Some(Rat(100 * table.cell[k][1], size[k[1]][1]))]]

calculate_retention(data) ==
    [cohort_table |-> CohortTable(data), retention_table |-> RetentionTable(CohortTable(data))]

\* revenue and avg_revenue_per_customer in cents
calculate_cohort_metrics(data) ==
    LET t == CohortTable(data)
        keys == SelectSeq(
                    Concat([a \in DOMAIN t.index |->
                               [b \in DOMAIN t.columns |-> <<t.index[a], t.columns[b]>>]]),
                    LAMBDA k : t.cell[k] # None)
    IN [n \in DOMAIN keys |->
          LET rows == GroupRows(data, keys[n][1], keys[n][2])
              revenue == SumSeq(Column(rows, "total_amount"))
          IN [cohort_month |-> keys[n][1],
              cohort_index |-> keys[n][2],
              customers |-> NUnique(rows),
              orders |-> Len(rows),
              revenue |-> revenue,
              avg_revenue_per_customer |-> RoundHalfEven(revenue, NUnique(rows))]]

HasColumn(table, c) == \E b \in DOMAIN table.columns : table.columns[b] = c
TableColumn(table, c) == [a \in DOMAIN table.index |-> table.cell[<<table.index[a], c>>]]

\* a null stands for Python's None as well as for a NaN mean
get_retention_summary(data) ==
    LET res == calculate_retention(data)
        rt == res.retention_table
        ct == res.cohort_table
        counts == TableColumn(ct, 0)
    IN IF ~HasColumn(rt, 1) THEN Raise("KeyError")
       ELSE IF ~HasColumn(ct, 0) THEN Raise("KeyError")
       ELSE Return(
              [month_1_retention |-> MeanSkipNull(TableColumn(rt, 1)),
               month_3_retention |->
                   IF HasColumn(rt, 3) THEN MeanSkipNull(TableColumn(rt, 3)) ELSE None,
               month_6_retention |->
                   IF HasColumn(rt, 6) THEN MeanSkipNull(TableColumn(rt, 6)) ELSE None,
               month_12_retention |->
                   IF HasColumn(rt, 12) THEN MeanSkipNull(TableColumn(rt, 12)) ELSE None,
               avg_cohort_size |->
                   MeanSkipNull([a \in DOMAIN counts |->
                                    IF counts[a] = None THEN None
                                    ELSE Some(Rat(counts[a][1], 1))])])

CreateCohorts ==
    /\ cohort_data' = Some(create_cohorts(co_orders))
    /\ co_out' = Outcome("create_cohorts", None, Return(create_cohorts(co_orders)))
    /\ co_created' = TRUE
    /\ UNCHANGED co_orders
    /\ UNCHANGED <<segVars, rfmVars, genVars>>

CalculateRetention ==
    LET data == EnsureCohorts(cohort_data, co_orders)
    IN /\ cohort_data' = data
       /\ co_out' = Outcome("calculate_retention", None, Return(calculate_retention(data[1])))
       /\ UNCHANGED <<co_orders, co_created>>
       /\ UNCHANGED <<segVars, rfmVars, genVars>>

CalculateCohortMetrics ==
    LET data == EnsureCohorts(cohort_data, co_orders)
    IN /\ cohort_data' = data
       /\ co_out' = Outcome("calculate_cohort_metrics", None,
                            Return(calculate_cohort_metrics(data[1])))
       /\ UNCHANGED <<co_orders, co_created>>
       /\ UNCHANGED <<segVars, rfmVars, genVars>>

GetRetentionSummary ==
    LET data == EnsureCohorts(cohort_data, co_orders)
    IN /\ cohort_data' = data
       /\ co_out' = Outcome("get_retention_summary", None, get_retention_summary(data[1]))
       /\ UNCHANGED <<co_orders, co_created>>
       /\ UNCHANGED <<segVars, rfmVars, genVars>>

\* CohortAnalysis.export_results; the value is the table written to output_path
ExportCohortResults ==
    LET data == EnsureCohorts(cohort_data, co_orders)
    IN /\ cohort_data' = data
       /\ co_out' = Outcome("export_results", None, Return(data[1]))
       /\ UNCHANGED <<co_orders, co_created>>
       /\ UNCHANGED <<segVars, rfmVars, genVars>>

(***************************************************************************)
(* The generator script.  Dates are days from START_DATE; unit prices are  *)
(* in cents, a line total and the running order total in 1/100 of a cent.  *)
(***************************************************************************)
START_DATE == 0
END_DATE == START_DATE + WindowDays

Prices == {1031, 1033}                   \* unit prices random.uniform may round to
DiscountChoices == {0, 5, 10, 15}        \* percent: [0, 0, 0, 0.05, 0.10, 0.15]
BehaviorTypes == {"champion", "loyal", "occasional", "one_time"}

\* the order counts a behaviour type draws from
NumOrdersRange(behavior_type) ==
    CASE behavior_type = "champion" -> {MaxNumOrders}
      [] behavior_type = "loyal" -> 2 .. MaxNumOrders
      [] behavior_type = "occasional" -> {2}
      [] behavior_type = "one_time" -> {1}

\* the first order of a run draws quantities and discounts from the full
\* sets, the orders after it from the least ones
QuantityChoices(oid) == IF oid = 1 THEN 1 .. MaxQty ELSE {1}
DiscountChoicesOf(oid) == IF oid = 1 THEN DiscountChoices ELSE {0}

\* k ids drawn with replacement, as random.choices would
SamplesWithRepetition(k) == [1 .. k -> 1 .. Len(g_products)]

\* random.sample(range(1, len(df_products) + 1), k): k distinct ids in draw order
Samples(k) ==
    {q \in [1 .. k -> 1 .. Len(g_products)] : \A i, j \in 1 .. k : i # j => q[i] # q[j]}

\* round(x, 2) of an amount x given in 1/100 of a cent, in cents: the nearest
\* cent; on a decimal tie the binary value of x decides, either neighbour
Round2(x) ==
    IF x % 100 = 50 THEN {x \div 100, (x \div 100) + 1}
    ELSE {RoundHalfEven(x, 100)}

NoLoop ==
    [num_orders |-> 0, order_num |-> 0, last_order_date |-> 0, order_date |-> 0,
     ship_date |-> 0, order_products |-> <<>>, order_total |-> 0]

GenFrame == UNCHANGED <<segVars, rfmVars, cohortVars>>

\* one iteration of the customer loop
GenCustomer ==
    /\ gen_pc = "customers"
    /\ Len(g_customers) < NumCustomers
    /\ \E off \in 0 .. (END_DATE - START_DATE) :
          g_customers' = Append(g_customers,
              [customer_id |-> Len(g_customers) + 1,
               customer_name |-> Len(g_customers) + 1,
               country |-> "USA",
               registration_date |-> START_DATE + off])
    /\ UNCHANGED <<gen_pc, g_products, g_orders, g_order_items,
                   order_id, order_item_id, cust_id, g_loop>>
    /\ GenFrame

\* one iteration of the product loops; the first one follows the customer loop
GenProduct ==
    /\ \/ gen_pc = "customers" /\ Len(g_customers) = NumCustomers
       \/ gen_pc = "products"
    /\ Len(g_products) < NumProducts
    /\ \E price \in Prices :
          g_products' = Append(g_products,
              [product_id |-> Len(g_products) + 1, unit_price |-> price])
    /\ gen_pc' = "products"
    /\ UNCHANGED <<g_customers, g_orders, g_order_items,
                   order_id, order_item_id, cust_id, g_loop>>
    /\ GenFrame

\* head of the outer order loop: behaviour type and order count of cust_id
StartCustomer ==
    /\ \/ gen_pc = "products" /\ Len(g_products) = NumProducts
       \/ gen_pc = "next_customer"
    /\ cust_id <= NumCustomers
    /\ \E behavior_type \in BehaviorTypes :
          \E n \in NumOrdersRange(behavior_type) :
              g_loop' = [NoLoop EXCEPT
                            !.num_orders = n,
                            !.last_order_date = g_customers[cust_id].registration_date]
    /\ gen_pc' = "order"
    /\ UNCHANGED <<g_customers, g_products, g_orders, g_order_items,
                   order_id, order_item_id, cust_id>>
    /\ GenFrame

\* the order loop is exhausted: on to the next customer
EndCustomer ==
    /\ gen_pc = "order"
    /\ g_loop.order_num >= g_loop.num_orders
    /\ cust_id' = cust_id + 1
    /\ gen_pc' = "next_customer"
    /\ UNCHANGED <<g_customers, g_products, g_orders, g_order_items,
                   order_id, order_item_id, g_loop>>
    /\ GenFrame

\* the order loop never stops early
PastWindowNever(order_date) == FALSE

\* if order_date > END_DATE: break
PastWindow(order_date) == order_date > END_DATE

\* head of an order: its date, or the break; then ship date and products
StartOrder ==
    /\ gen_pc = "order"
    /\ g_loop.order_num < g_loop.num_orders
    /\ Len(g_orders) < MaxGenOrders
    /\ \E gap \in IF g_loop.order_num = 0 THEN 0 .. FirstGapMax ELSE GapMin .. GapMax :
          LET order_date ==
                  IF g_loop.order_num = 0
                  THEN g_customers[cust_id].registration_date + gap
                  ELSE g_loop.last_order_date + gap
          IN IF PastWindow(order_date)
             THEN \* break: the candidate date is computed, nothing is emitted
                  /\ cust_id' = cust_id + 1
                  /\ gen_pc' = "next_customer"
                  /\ g_loop' = [g_loop EXCEPT !.order_date = order_date]
             ELSE /\ \E ship \in 1 .. ShipMax, num_items \in 1 .. MaxItems :
                        IF num_items > Len(g_products)
                        THEN \* random.sample raises ValueError: the script dies
                             /\ g_loop' = [g_loop EXCEPT
                                              !.last_order_date = order_date,
                                              !.order_date = order_date,
                                              !.ship_date = order_date + ship]
                             /\ gen_pc' = "ValueError"
                        ELSE /\ \E order_products \in Samples(num_items) :
                                   g_loop' = [g_loop EXCEPT
                                                 !.last_order_date = order_date,
                                                 !.order_date = order_date,
                                                 !.ship_date = order_date + ship,
                                                 !.order_products = order_products,
                                                 !.order_total = 0]
                             /\ gen_pc' = "items"
                  /\ UNCHANGED cust_id
    /\ UNCHANGED <<g_customers, g_products, g_orders, g_order_items,
                   order_id, order_item_id>>
    /\ GenFrame

\* one iteration of the item loop
AddItem ==
    /\ gen_pc = "items"
    /\ g_loop.order_products # <<>>
    /\ LET prod_id == Head(g_loop.order_products)
           product == g_products[prod_id]
       IN \E quantity \in QuantityChoices(order_id), discount \in DiscountChoicesOf(order_id) :
             LET line_total == product.unit_price * quantity * (100 - discount)
             IN /\ \E rounded \in Round2(line_total) :
                      g_order_items' = Append(g_order_items,
                          [order_item_id |-> order_item_id,
                           order_id |-> order_id,
                           product_id |-> prod_id,
                           quantity |-> quantity,
                           unit_price |-> product.unit_price,
                           discount |-> discount,
                           line_total |-> rounded])
                /\ g_loop' = [g_loop EXCEPT
                                 !.order_products = Tail(g_loop.order_products),
                                 !.order_total = g_loop.order_total + line_total]
    /\ order_item_id' = order_item_id + 1
    /\ UNCHANGED <<gen_pc, g_customers, g_products, g_orders, order_id, cust_id>>
    /\ GenFrame

\* the order is appended after its items
EmitOrder ==
    /\ gen_pc = "items"
    /\ g_loop.order_products = <<>>
    /\ \E total \in Round2(g_loop.order_total) :
          g_orders' = Append(g_orders,
              [order_id |-> order_id,
               customer_id |-> cust_id,
               order_date |-> g_loop.order_date,
               ship_date |-> g_loop.ship_date,
               total_amount |-> total,
               order_status |-> "Completed"])
    /\ order_id' = order_id + 1
    /\ g_loop' = [g_loop EXCEPT !.order_num = g_loop.order_num + 1]
    /\ gen_pc' = "order"
    /\ UNCHANGED <<g_customers, g_products, g_order_items, order_item_id, cust_id>>
    /\ GenFrame

\* all customers processed: the tables are saved
SaveTables ==
    /\ gen_pc = "next_customer"
    /\ cust_id > NumCustomers
    /\ gen_pc' = "done"
    /\ UNCHANGED <<g_customers, g_products, g_orders, g_order_items,
                   order_id, order_item_id, cust_id, g_loop>>
    /\ GenFrame

(***************************************************************************)
(* Specifications: one per component, the other components idle.           *)
(***************************************************************************)
InitSegment ==
    /\ seg_row \in [r_score : Scores, f_score : Scores, m_score : Scores]
    /\ seg_label = None
    \* the other components have not been constructed
    /\ orders = <<>>
    /\ customers = <<>>
    /\ rfm_data = None
    /\ rfm_out = Outcome("__init__", None, Raise(""))
    /\ rfm_computed = FALSE
    /\ co_orders = <<>>
    /\ cohort_data = None
    /\ co_out = Outcome("__init__", None, Raise(""))
    /\ co_created = FALSE
    /\ gen_pc = "idle"
    /\ g_customers = <<>>
    /\ g_products = <<>>
    /\ g_orders = <<>>
    /\ g_order_items = <<>>
    /\ order_id = 1
    /\ order_item_id = 1
    /\ cust_id = 1
    /\ g_loop = NoLoop

InitRFM ==
    /\ orders \in OrderTables
    /\ customers \in CustomerTables
    /\ rfm_data = None
    /\ rfm_out = Outcome("__init__", None, Raise(""))
    /\ rfm_computed = FALSE
    \* the other components have not been constructed
    /\ seg_row = None
    /\ seg_label = None
    /\ co_orders = <<>>
    /\ cohort_data = None
    /\ co_out = Outcome("__init__", None, Raise(""))
    /\ co_created = FALSE
    /\ gen_pc = "idle"
    /\ g_customers = <<>>
    /\ g_products = <<>>
    /\ g_orders = <<>>
    /\ g_order_items = <<>>
    /\ order_id = 1
    /\ order_item_id = 1
    /\ cust_id = 1
    /\ g_loop = NoLoop

InitCohort ==
    /\ co_orders \in CohortTables
    /\ cohort_data = None
    /\ co_out = Outcome("__init__", None, Raise(""))
    /\ co_created = FALSE
    \* the other components have not been constructed
    /\ seg_row = None
    /\ seg_label = None
    /\ orders = <<>>
    /\ customers = <<>>
    /\ rfm_data = None
    /\ rfm_out = Outcome("__init__", None, Raise(""))
    /\ rfm_computed = FALSE
    /\ gen_pc = "idle"
    /\ g_customers = <<>>
    /\ g_products = <<>>
    /\ g_orders = <<>>
    /\ g_order_items = <<>>
    /\ order_id = 1
    /\ order_item_id = 1
    /\ cust_id = 1
    /\ g_loop = NoLoop

InitGen ==
    /\ gen_pc = "customers"
    /\ g_customers = <<>>
    /\ g_products = <<>>
    /\ g_orders = <<>>
    /\ g_order_items = <<>>
    /\ order_id = 1
    /\ order_item_id = 1
    /\ cust_id = 1
    /\ g_loop = NoLoop
    \* the other components have not been constructed
    /\ seg_row = None
    /\ seg_label = None
    /\ orders = <<>>
    /\ customers = <<>>
    /\ rfm_data = None
    /\ rfm_out = Outcome("__init__", None, Raise(""))
    /\ rfm_computed = FALSE
    /\ co_orders = <<>>
    /\ cohort_data = None
    /\ co_out = Outcome("__init__", None, Raise(""))
    /\ co_created = FALSE

NextSegment == AssignSegment

NextRFM ==
    \/ CalculateRfmDefault
    \/ CalculateRfmAt
    \/ GetSegmentSummary
    \/ ExportResults

NextCohort ==
    \/ CreateCohorts
    \/ CalculateRetention
    \/ CalculateCohortMetrics
    \/ GetRetentionSummary
    \/ ExportCohortResults

NextGen ==
    \/ GenCustomer
    \/ GenProduct
    \/ StartCustomer
    \/ EndCustomer
    \/ StartOrder
    \/ AddItem
    \/ EmitOrder
    \/ SaveTables

SpecSegment ==
    InitSegment /\ [][NextSegment]_vars
SpecRFM == InitRFM /\ [][NextRFM]_vars
SpecCohort ==
    InitCohort /\ [][NextCohort]_vars
SpecGen == InitGen /\ [][NextGen]_vars

(***************************************************************************)
(* Claims about RFMAnalysis.                                               *)
(***************************************************************************)
RuleMatches(i, r, f, m) ==
    CASE i = 1 -> r >= 4 /\ f >= 4 /\ m >= 4
      [] i = 2 -> r >= 3 /\ f >= 3 /\ m >= 3
      [] i = 3 -> r >= 3 /\ f <= 2
      [] i = 4 -> r <= 2 /\ f >= 3
      [] i = 5 -> r <= 2 /\ f <= 2 /\ m >= 3
      [] i = 6 -> r <= 2 /\ f <= 2
      [] i = 7 -> TRUE

RuleLabels ==
    <<"Champions", "Loyal", "Potential Loyalist", "At Risk", "Cant Lose", "Lost", "Others">>

FirstMatch(r, f, m) ==
    RuleLabels[CHOOSE i \in 1 .. 7 :
                  RuleMatches(i, r, f, m) /\ \A j \in 1 .. (i - 1) : ~RuleMatches(j, r, f, m)]

SegRowIs(r, f, m) == seg_row = [r_score |-> r, f_score |-> f, m_score |-> m]

\* C1: for every score triple in 1..5 the segment returned is the label of the
\* first matching rule of the fixed decision order; (5,5,5) is Champions,
\* (1,1,1) is Lost and (3,1,5) is Potential Loyalist.
C1_SegmentFirstMatch ==
    seg_label # None =>
        /\ seg_label = Some(FirstMatch(seg_row.r_score, seg_row.f_score, seg_row.m_score))
        /\ SegRowIs(5, 5, 5) => seg_label = Some("Champions")
        /\ SegRowIs(1, 1, 1) => seg_label = Some("Lost")
        /\ SegRowIs(3, 1, 5) => seg_label = Some("Potential Loyalist")

C1_Witness == SegRowIs(3, 1, 5) /\ seg_label = Some("Potential Loyalist")

\* C2: get_segment_summary and export_results called before any successful
\* calculate_rfm raise ValueError, return nothing and leave rfm_data unset.
C2_SummaryNeedsScores ==
    (rfm_out.op \in {"get_segment_summary", "export_results"} /\ ~rfm_computed) =>
        /\ rfm_out.raised = "ValueError"
        /\ rfm_out.value = None
        /\ rfm_data = None

C2_Witness ==
    /\ rfm_out.op = "get_segment_summary"
    /\ ~rfm_computed
    /\ rfm_out.raised = "ValueError"
    /\ Len(orders) >= 2

CalculateReturned == rfm_out.op = "calculate_rfm" /\ rfm_out.raised = ""

LatestOrder(c) ==
    SeqMax(Column(SelectSeq(orders, LAMBDA o : o.customer_id = c), "order_date"))

ReferenceDateUsed ==
    IF rfm_out.arg = None THEN SeqMax(Column(orders, "order_date")) ELSE rfm_out.arg[1]

\* C8: for the default reference date and for any caller-supplied one, each
\* customer's recency is the reference date minus the customer's latest order
\* date in days, and is at least 0.
C8_RecencyNonNegative ==
    CalculateReturned =>
        \A i \in DOMAIN rfm_data[1] :
            /\ rfm_data[1][i].recency =
                   ReferenceDateUsed - LatestOrder(rfm_data[1][i].customer_id)
            /\ rfm_data[1][i].recency >= 0

CustomersScored(table, col, b) ==
    {table[i].customer_id : i \in {j \in DOMAIN table : table[j][col] = b}}

Balanced(table, col) ==
    \A a, b \in Scores :
        Cardinality(CustomersScored(table, col, a))
            <= Cardinality(CustomersScored(table, col, b)) + 1

\* C9: whenever calculate_rfm scores a table, r_score, f_score and m_score are
\* in 1..5 and, for frequency and for monetary, the numbers of customers in
\* any two of the five buckets differ by at most 1, whatever the ties.
C9_ScoresBalanced ==
    CalculateReturned =>
        /\ \A i \in DOMAIN rfm_data[1] :
              /\ rfm_data[1][i].r_score \in Scores
              /\ rfm_data[1][i].f_score \in Scores
              /\ rfm_data[1][i].m_score \in Scores
        /\ Balanced(rfm_data[1], "f_score")
        /\ Balanced(rfm_data[1], "m_score")

C9_Witness ==
    /\ CalculateReturned
    /\ Cardinality({orders[i].customer_id : i \in DOMAIN orders}) >= 6
    /\ \E i, j \in DOMAIN rfm_data[1] :
          /\ rfm_data[1][i].customer_id # rfm_data[1][j].customer_id
          /\ rfm_data[1][i].frequency = rfm_data[1][j].frequency
          /\ rfm_data[1][i].monetary = rfm_data[1][j].monetary
          /\ rfm_data[1][i].f_score # rfm_data[1][j].f_score
          /\ rfm_data[1][i].m_score # rfm_data[1][j].m_score
    /\ \E b \in Scores : Cardinality(CustomersScored(rfm_data[1], "f_score", b)) = 2

\* C10: calculate_rfm never fails: with too few distinct values for 5 quantile
\* boundaries it still returns a record with scores for every customer.
C10_NeverFails ==
    rfm_out.op = "calculate_rfm" =>
        /\ rfm_out.raised = ""
        /\ {rfm_data[1][i].customer_id : i \in DOMAIN rfm_data[1]}
               = {orders[i].customer_id : i \in DOMAIN orders}

\* C11: calculate_rfm returns exactly one record for each distinct customer_id
\* of the order table, whatever the customer table holds: a customer missing
\* from the customer table keeps its record with null name and country, and
\* the join neither drops nor repeats a record.
C11_OneRecordPerCustomer ==
    CalculateReturned =>
        LET out == rfm_out.value[1]
            ids == {orders[i].customer_id : i \in DOMAIN orders}
        IN /\ \A c \in ids :
                 Cardinality({i \in DOMAIN out : out[i].customer_id = c}) = 1
           /\ \A i \in DOMAIN out :
                 /\ out[i].customer_id \in ids
                 /\ (\A k \in DOMAIN customers :
                        customers[k].customer_id # out[i].customer_id)
                       => (out[i].customer_name = None /\ out[i].country = None)

\* C16: for any two customers scored by calculate_rfm, a lower recency never
\* has a lower r_score and equal recencies have equal r_scores; a lower
\* frequency never has a higher f_score, a lower monetary never a higher
\* m_score.
C16_ScoresMonotone ==
    CalculateReturned =>
        \A i, j \in DOMAIN rfm_data[1] :
            LET a == rfm_data[1][i]
                b == rfm_data[1][j]
            IN /\ a.recency < b.recency => a.r_score >= b.r_score
               /\ a.recency = b.recency => a.r_score = b.r_score
               /\ a.frequency < b.frequency => a.f_score <= b.f_score
               /\ a.monetary < b.monetary => a.m_score <= b.m_score

C16_Witness ==
    /\ CalculateReturned
    /\ \E i, j \in DOMAIN rfm_data[1] :
          /\ rfm_data[1][i].recency < rfm_data[1][j].recency
          /\ rfm_data[1][i].r_score > rfm_data[1][j].r_score
          /\ rfm_data[1][i].frequency > rfm_data[1][j].frequency
          /\ rfm_data[1][i].f_score > rfm_data[1][j].f_score
    /\ \E i, j \in DOMAIN rfm_data[1] :
          /\ rfm_data[1][i].monetary < rfm_data[1][j].monetary
          /\ rfm_data[1][i].m_score < rfm_data[1][j].m_score
    /\ \E i, j \in DOMAIN rfm_data[1] :
          /\ rfm_data[1][i].customer_id # rfm_data[1][j].customer_id
          /\ rfm_data[1][i].recency = rfm_data[1][j].recency

(***************************************************************************)
(* Claims about CohortAnalysis.                                            *)
(***************************************************************************)
\* C3: the retention tables, the retention summary, the cohort metrics and the
\* export requested before create_cohorts has run fail with a usage-order
\* error; they neither run create_cohorts silently nor return a result.
C3_CohortCallsFailFast ==
    (/\ co_out.op \in {"calculate_retention", "get_retention_summary",
                       "calculate_cohort_metrics", "export_results"}
     /\ ~co_created) =>
        /\ co_out.raised # ""
        /\ co_out.value = None
        /\ cohort_data = None

RetentionReturned == co_out.op = "calculate_retention" /\ co_out.raised = ""

CohortMonths == {cohort_data[1][i].cohort_month : i \in DOMAIN cohort_data[1]}

\* the distinct customers of cohort cm that ordered k months after its start
ActiveCustomers(cm, k) ==
    {cohort_data[1][i].customer_id :
        i \in {j \in DOMAIN cohort_data[1] :
                  /\ cohort_data[1][j].cohort_month = cm
                  /\ cohort_data[1][j].cohort_index = k}}

\* C4: in the retention table of calculate_retention every cohort has exactly
\* 100 in the column of cohort_index 0: the first pivot column is index 0 and
\* the divisor is the cohort's distinct-customer count at index 0.
C4_RetentionAtIndexZero ==
    RetentionReturned =>
        LET ct == co_out.value[1].cohort_table
            rt == co_out.value[1].retention_table
        IN /\ ct.columns[1] = 0
           /\ \A cm \in CohortMonths :
                 /\ ct.cell[<<cm, ct.columns[1]>>] = Some(Cardinality(ActiveCustomers(cm, 0)))
                 /\ rt.cell[<<cm, 0>>] = Some([num |-> 100, den |-> 1])

C4_Witness ==
    /\ RetentionReturned
    /\ \E k \in DOMAIN co_out.value[1].retention_table.cell :
          /\ k[2] > 0
          /\ co_out.value[1].retention_table.cell[k] = Some([num |-> 50, den |-> 1])

\* C5: for every cohort and every cohort_index k of the cohort size table, the
\* count of distinct active customers at k is at most the count at index 0,
\* and no retention percentage exceeds 100.
C5_ActiveWithinCohortSize ==
    RetentionReturned =>
        LET ct == co_out.value[1].cohort_table
            rt == co_out.value[1].retention_table
        IN \A k \in DOMAIN ct.cell :
              /\ ct.cell[k] # None =>
                    /\ ct.cell[<<k[1], 0>>] # None
                    /\ ct.cell[k][1] <= ct.cell[<<k[1], 0>>][1]
              /\ rt.cell[k] # None => rt.cell[k][1].num <= 100 * rt.cell[k][1].den

C5_Witness ==
    /\ RetentionReturned
    /\ \E k \in DOMAIN co_out.value[1].cohort_table.cell :
          /\ k[2] > 0
          /\ co_out.value[1].cohort_table.cell[k] = Some(1)
          /\ Len(GroupRows(cohort_data[1], k[1], k[2])) = 2
          /\ co_out.value[1].cohort_table.cell[<<k[1], 0>>] = Some(1)

\* the customer's order date that no other order date of the customer precedes
EarliestOrder(c) ==
    CHOOSE d \in CustomerDates(co_orders, c) :
        \A e \in CustomerDates(co_orders, c) : e = d \/ DateBefore(d, e)

PeriodYear(p) == 1970 + (p \div 12)
PeriodMonth(p) == (p % 12) + 1

\* C6: in the table of create_cohorts, cohort_month is the calendar month of
\* the customer's earliest order and cohort_index is the non-negative integer
\* 12*(order year - cohort year) + (order month - cohort month); it is 0 for
\* an order placed in the cohort month.
C6_CohortIndex ==
    (co_out.op = "create_cohorts" /\ co_out.raised = "") =>
        /\ Len(co_out.value[1]) = Len(co_orders)
        /\ \A i \in DOMAIN co_out.value[1] :
              LET row == co_out.value[1][i]
                  first == EarliestOrder(row.customer_id)
              IN /\ row.order_date = co_orders[i].order_date
                 /\ row.customer_id = co_orders[i].customer_id
                 /\ PeriodYear(row.cohort_month) = first[1]
                 /\ PeriodMonth(row.cohort_month) = first[2]
                 /\ row.cohort_index =
                        12 * (row.order_date[1] - first[1]) + (row.order_date[2] - first[2])
                 /\ row.cohort_index >= 0
                 /\ (row.order_date[1] = first[1] /\ row.order_date[2] = first[2])
                        => row.cohort_index = 0

C6_Witness ==
    /\ co_out.op = "create_cohorts"
    /\ \E i, j \in DOMAIN co_out.value[1] :
          /\ co_out.value[1][i].customer_id = co_out.value[1][j].customer_id
          /\ co_out.value[1][i].order_date = <<2023, 11, 20>>
          /\ co_out.value[1][i].cohort_index = 0
          /\ co_out.value[1][j].order_date = <<2024, 2, 5>>
          /\ co_out.value[1][j].cohort_index = 3

MonthNo(d) == 12 * d[1] + d[2]

LatestMonthNo == SeqMax([i \in DOMAIN co_orders |-> MonthNo(co_orders[i].order_date)])

CohortCustomers(cm) ==
    {c \in {co_orders[i].customer_id : i \in DOMAIN co_orders} : MonthNo(EarliestOrder(c)) = cm}

\* the customers of cohort cm with an order k months after the cohort month
RetainedCustomers(cm, k) ==
    {c \in CohortCustomers(cm) : \E d \in CustomerDates(co_orders, c) : MonthNo(d) = cm + k}

\* the cohorts old enough to have an index k
CohortsReached(k) ==
    {cm \in {MonthNo(co_orders[i].order_date) : i \in DOMAIN co_orders} :
        CohortCustomers(cm) # {} /\ cm + k <= LatestMonthNo}

\* the mean over the cohorts that reached k of their retention percentage at k
MeanRetentionAt(k) ==
    LET cms == SetToSortedSeq(CohortsReached(k))
        t == RatSum([a \in DOMAIN cms |->
                        Rat(100 * Cardinality(RetainedCustomers(cms[a], k)),
                            Cardinality(CohortCustomers(cms[a])))])
    IN IF cms = <<>> THEN None ELSE Some(Rat(t.num, t.den * Len(cms)))

\* C15: get_retention_summary returns, for every order table, a summary whose
\* month_k_retention (k = 1, 3, 6, 12) is the mean of the retention at index k
\* over the cohorts that have reached horizon k, each of them contributing
\* its retention value at k, and null when no cohort has reached k.
C15_RetentionSummary ==
    co_out.op = "get_retention_summary" =>
        /\ co_out.raised = ""
        /\ co_out.value[1].month_1_retention = MeanRetentionAt(1)
        /\ co_out.value[1].month_3_retention = MeanRetentionAt(3)
        /\ co_out.value[1].month_6_retention = MeanRetentionAt(6)
        /\ co_out.value[1].month_12_retention = MeanRetentionAt(12)

\* C17: the table of create_cohorts has exactly one record for each order of
\* the input table (as many rows, each order_id once), and the index-0 cohort
\* sizes of calculate_retention summed over all cohorts equal the number of
\* distinct customers of the order table.
C17_OneCohortRecordPerOrder ==
    /\ cohort_data # None =>
          /\ Len(cohort_data[1]) = Len(co_orders)
          /\ \A i \in DOMAIN co_orders :
                Cardinality({j \in DOMAIN cohort_data[1] :
                                cohort_data[1][j].order_id = co_orders[i].order_id}) = 1
    /\ RetentionReturned =>
          LET ct == co_out.value[1].cohort_table
          IN /\ \A a \in DOMAIN ct.index : ct.cell[<<ct.index[a], 0>>] # None
             /\ SumSeq([a \in DOMAIN ct.index |-> ct.cell[<<ct.index[a], 0>>][1]])
                    = Cardinality({co_orders[i].customer_id : i \in DOMAIN co_orders})

C17_Witness ==
    /\ RetentionReturned
    /\ Len(co_out.value[1].cohort_table.index) = 2
    /\ Len(cohort_data[1]) = 3
    /\ \E i, j \in DOMAIN cohort_data[1] :
          /\ i # j
          /\ cohort_data[1][i].customer_id = cohort_data[1][j].customer_id
          /\ cohort_data[1][i].cohort_index = 0
          /\ cohort_data[1][j].cohort_index = 0

(***************************************************************************)
(* Claims about the generator.                                             *)
(***************************************************************************)
ItemsOf(oid) == SelectSeq(g_order_items, LAMBDA it : it.order_id = oid)

\* C7: the total_amount of every emitted order equals, to the cent, the sum of
\* the stored 2-decimal line_total values of the items of that order.
C7_OrderTotalIsItemSum ==
    \A k \in DOMAIN g_orders :
        g_orders[k].total_amount = SumSeq(Column(ItemsOf(g_orders[k].order_id), "line_total"))

\* C12: every customer the generator produces has a registration date d with
\* START_DATE <= d < END_DATE, for every value of the random day offset.
C12_RegistrationInWindow ==
    \A i \in DOMAIN g_customers :
        /\ START_DATE <= g_customers[i].registration_date
        /\ g_customers[i].registration_date < END_DATE

OrdersOfCustomer(c) == SelectSeq(g_orders, LAMBDA o : o.customer_id = c)

\* the customer whose order loop ran last
LoopCustomer == IF gen_pc \in {"next_customer", "done"} THEN cust_id - 1 ELSE cust_id

InOrderLoop == gen_pc \in {"order", "items", "ValueError", "next_customer", "done"}

StoppedEarly == gen_pc = "next_customer" /\ g_loop.order_date > END_DATE

OrderDatesInSequence ==
    /\ \A c \in 1 .. NumCustomers :
          LET os == OrdersOfCustomer(c)
          IN /\ \A i \in DOMAIN os :
                   /\ os[i].order_date <= END_DATE
                   /\ os[i].ship_date >= os[i].order_date
             /\ \A i, j \in DOMAIN os : i < j => os[i].order_date < os[j].order_date
    /\ InOrderLoop => Len(OrdersOfCustomer(LoopCustomer)) <= g_loop.num_orders
    /\ StoppedEarly =>
          /\ Len(OrdersOfCustomer(LoopCustomer)) = g_loop.order_num
          /\ \A i \in DOMAIN g_orders :
                g_orders[i].customer_id = LoopCustomer
                    => g_orders[i].order_date < g_loop.order_date

OrderLoopStep ==
    /\ cust_id' >= cust_id
    /\ g_orders' # g_orders =>
          /\ cust_id' = cust_id
          /\ Len(g_orders') = Len(g_orders) + 1
          /\ SubSeq(g_orders', 1, Len(g_orders)) = g_orders
          /\ g_orders'[Len(g_orders')].customer_id = cust_id
    /\ (gen_pc = "order" /\ g_loop'.order_date > END_DATE) =>
          /\ g_orders' = g_orders
          /\ g_order_items' = g_order_items
          /\ cust_id' = cust_id + 1

\* C13: the orders emitted for a customer have strictly increasing order
\* dates, none later than END_DATE, each with ship date >= order date, and
\* are at most num_orders many; when a candidate order date exceeds END_DATE
\* no order is emitted for it and none is emitted for that customer later.
C13_OrderDates == []OrderDatesInSequence /\ [][OrderLoopStep]_vars

C13_Witness ==
    /\ StoppedEarly
    /\ g_loop.num_orders = 2
    /\ Len(OrdersOfCustomer(LoopCustomer)) = 1
    /\ OrdersOfCustomer(LoopCustomer)[1].order_date = END_DATE

IdsConsecutive ==
    /\ \A k \in DOMAIN g_orders : g_orders[k].order_id = k
    /\ \A k \in DOMAIN g_order_items : g_order_items[k].order_item_id = k

OrderEmitted(oid) == \E k \in DOMAIN g_orders : g_orders[k].order_id = oid

OrdersHaveItems ==
    \A k \in DOMAIN g_orders :
        LET its == ItemsOf(g_orders[k].order_id)
        IN /\ Len(its) >= 1
           /\ Len(its) <= MaxItems
           /\ MaxItems <= 5
           /\ \A i, j \in DOMAIN its : i # j => its[i].product_id # its[j].product_id

ItemsWellFormed ==
    \A k \in DOMAIN g_order_items :
        LET it == g_order_items[k]
        IN /\ it.quantity >= 1
           /\ it.discount >= 0
           /\ it.discount < 100
           /\ it.product_id \in DOMAIN g_products
           /\ it.unit_price = g_products[it.product_id].unit_price

\* an order is appended for the customer and under the id its items carry
OrderFollowsItems ==
    /\ g_order_items' # g_order_items =>
          /\ g_order_items'[Len(g_order_items')].order_id = order_id
          /\ order_id' = order_id
          /\ cust_id' = cust_id
    /\ g_orders' # g_orders =>
          /\ g_orders'[Len(g_orders')].order_id = order_id
          /\ g_orders'[Len(g_orders')].customer_id = cust_id
          /\ g_order_items' = g_order_items

\* C18 as stated: after any prefix of the run, order ids and order-item ids
\* are consecutive from 1, every order item references an emitted order,
\* every emitted order has 1..5 items on pairwise distinct existing products,
\* and every item has quantity >= 1, a discount in [0, 1) and the unit price
\* of its product.
C18_NoOrphanItems ==
    /\ IdsConsecutive
    /\ \A k \in DOMAIN g_order_items : OrderEmitted(g_order_items[k].order_id)
    /\ OrdersHaveItems
    /\ ItemsWellFormed

\* C18 amended: as C18, except that an order item references an emitted order
\* or the order under construction, whose id is the next order id and which
\* is appended, for the current customer, once its item loop ends; outside
\* an item loop, and so in the saved tables, no item is an orphan.
C18_ItemsOfEmittedOrPendingOrder ==
    /\ [](/\ IdsConsecutive
          /\ OrdersHaveItems
          /\ ItemsWellFormed
          /\ order_id = Len(g_orders) + 1
          /\ \A k \in DOMAIN g_order_items :
                \/ OrderEmitted(g_order_items[k].order_id)
                \/ gen_pc = "items" /\ g_order_items[k].order_id = order_id)
    /\ [][OrderFollowsItems]_vars

C18_Witness ==
    /\ gen_pc = "items"
    /\ Len(g_orders) = 1
    /\ Len(ItemsOf(1)) = 2
    /\ Len(ItemsOf(2)) = 1
    /\ ~OrderEmitted(2)
    /\ g_loop.order_products # <<>>

====
